---- MODULE Spec2Model ----
(***************************************************************************)
(* Table-entry storage engine of the fabric-sim P4Runtime simulator        *)
(* (pkg/simulator/entries/table.go): the registry of tables, the rows of   *)
(* each table with their direct-resource overlays, the canonical key of a  *)
(* row, and the batched read pipeline.                                     *)
(*                                                                         *)
(* Go pointers are modelled as sequences of length 0 (nil) or 1 (a pointer *)
(* to the value).  A Go map is a function whose DOMAIN is the key set.     *)
(* SHA-1 is taken to be injective: a key is the byte string fed to the     *)
(* hash.                                                                   *)
(***************************************************************************)
EXTENDS Integers, Sequences, FiniteSets, TLC

VARIABLES
    tables,  \* Tables.tables: table ID -> Table (info, rows, defaultRow)
    pc,      \* where the caller stands: "idle", "called", "reading", "returned"
    req,     \* the request handed to the registry
    res,     \* the result of the handler (error kind, derived key)
    pre,     \* Tables.tables as it was when the mutating handler was entered (nil otherwise)
    rd,      \* position of a ReadTableEntries call in progress
    sent,    \* the sender's record of its invocations during the read
    nops     \* number of requests issued so far

vars == <<tables, pc, req, res, pre, rd, sent, nops>>

(***************************************************************************)
(* Bounds of the model.                                                    *)
(***************************************************************************)
MaxOps == 3
MaxOverlayOps == 4
MaxFanOps == 3
MaxReadRows == 130
MaxPermute == 3
MaxKeyLen == 1

\* the number of requests of a run of inserts and modifies of colliding entries
MaxCollideOps == 3

\* the number of requests of a run of operations and reads on one table
MaxSizeOps == 3

(***************************************************************************)
(* Values.                                                                 *)
(***************************************************************************)
Nil == <<>>

Ptr(v) == <<v>>

OK == "OK"

NotFound == "NotFound"

AlreadyExists == "AlreadyExists"

Invalid == "Invalid"

\* whatever error the sender callback returns
SenderError == "SenderError"

\* ReadType (table.go, const block)
ReadTableEntry == "ReadTableEntry"

ReadDirectCounter == "ReadDirectCounter"

ReadDirectMeter == "ReadDirectMeter"

\* capacity of the accumulation buffer, make([]*p4api.Entity, 0, 64)
BufferCap == 64

\* p4api.FieldMatch: the field ID and the oneof FieldMatchType with its payload.
\* Type "none" is a FieldMatch whose FieldMatchType is not one of the five.
FieldMatch(id, type, value, mask, low, high, prefixLen) ==
    [FieldId |-> id, Type |-> type, Value |-> value, Mask |-> mask,
     Low |-> low, High |-> high, PrefixLen |-> prefixLen]

Exact(id, value) == FieldMatch(id, "exact", value, <<>>, <<>>, <<>>, 0)

Lpm(id, value, prefixLen) == FieldMatch(id, "lpm", value, <<>>, <<>>, <<>>, prefixLen)

Range(id, low, high) == FieldMatch(id, "range", <<>>, <<>>, low, high, 0)

Ternary(id, value, mask) == FieldMatch(id, "ternary", value, mask, <<>>, <<>>, 0)

Optional(id, value) == FieldMatch(id, "optional", value, <<>>, <<>>, <<>>, 0)

Untyped(id) == FieldMatch(id, "none", <<>>, <<>>, <<>>, <<>>, 0)

\* p4api.TableEntry
TableEntry(tid, match, action, priority, isDefault, counterData, meterConfig, meterCounterData) ==
    [TableId |-> tid, Match |-> match, Action |-> action, Priority |-> priority,
     IsDefaultAction |-> isDefault, CounterData |-> counterData,
     MeterConfig |-> meterConfig, MeterCounterData |-> meterCounterData]

\* &p4api.CounterData{}
ZeroCounterData == Ptr(0)

(***************************************************************************)
(* Sorting by ID: sort.SliceStable with a "less" on the ID.                *)
(***************************************************************************)
\* the ID a sort compares: FieldMatch.FieldId or p4info MatchField.Id
IdOf(x) == IF "FieldId" \in DOMAIN x THEN x.FieldId ELSE x.Id

RECURSIVE InsertStable(_, _)
\* x placed after every element of the sorted s whose ID is <= its own
InsertStable(x, s) ==
    IF s = <<>> THEN <<x>>
    ELSE IF IdOf(x) < IdOf(Head(s)) THEN <<x>> \o s
    ELSE <<Head(s)>> \o InsertStable(x, Tail(s))

RECURSIVE SliceStable(_)
SliceStable(s) ==
    IF s = <<>> THEN <<>>
    ELSE InsertStable(s[Len(s)], SliceStable(SubSeq(s, 1, Len(s) - 1)))

\* the matches are left in the order given
sortFieldMatchesNone(matches) == matches

\* sortFieldMatches: stable sort of the matches by field ID
sortFieldMatches(matches) == SliceStable(matches)

(***************************************************************************)
(* Construction.                                                           *)
(***************************************************************************)
\* Tables.NewTable: the schema's fields sorted by ID, no rows, no default row
NewTable(info) ==
    [info |-> [Id |-> info.Id, MatchFields |-> SliceStable(info.MatchFields)],
     rows |-> <<>>,
     defaultRow |-> Nil]

\* NewTables: one table per schema, keyed by the schema's table ID
NewTables(tablesInfo) ==
    [id \in {tablesInfo[i].Id : i \in DOMAIN tablesInfo} |->
        NewTable(tablesInfo[CHOOSE i \in DOMAIN tablesInfo :
            /\ tablesInfo[i].Id = id
            /\ \A j \in DOMAIN tablesInfo : tablesInfo[j].Id = id => j <= i])]

\* the new row's counter data is zero whatever the entry carries
newRowZeroCounter(entry) ==
    [entry |-> entry,
     counterData |-> ZeroCounterData,
     meterConfig |-> entry.MeterConfig,
     meterData |-> IF entry.MeterCounterData # Nil THEN entry.MeterCounterData ELSE Nil]

\* Table.newRow
newRow(entry) ==
    [entry |-> entry,
     counterData |-> IF entry.CounterData # Nil THEN entry.CounterData ELSE ZeroCounterData,
     meterConfig |-> entry.MeterConfig,
     meterData |-> IF entry.MeterCounterData # Nil THEN entry.MeterCounterData ELSE Nil]

(***************************************************************************)
(* Canonical key.                                                          *)
(***************************************************************************)
\* n & mask for an int32 n (two's complement) and a mask of eight consecutive
\* bits starting at bit "shift": \div rounds down and % is never negative
AndByteAt(n, shift) == ((n \div (2 ^ shift)) % 256) * (2 ^ shift)

\* writeHash: the four bytes written for an int32
writeHash(n) ==
    << (AndByteAt(n, 16) \div (2 ^ 24)) % 256,
       (AndByteAt(n, 16) \div (2 ^ 16)) % 256,
       (AndByteAt(n, 8) \div (2 ^ 8)) % 256,
       AndByteAt(n, 0) % 256 >>

\* the upper bound of a range match is not hashed
MatchBytesRangeLowOnly(m) ==
    CASE m.Type = "exact" -> <<1>> \o m.Value
      [] m.Type = "lpm" -> <<2>> \o writeHash(m.PrefixLen) \o m.Value
      [] m.Type = "range" -> <<3>> \o m.Low
      [] m.Type = "ternary" -> <<4>> \o m.Mask \o m.Value
      [] m.Type = "optional" -> <<5>> \o m.Value
      [] OTHER -> <<>>

\* the bytes entryKey feeds to the hash for one match
MatchBytes(m) ==
    CASE m.Type = "exact" -> <<1>> \o m.Value
      [] m.Type = "lpm" -> <<2>> \o writeHash(m.PrefixLen) \o m.Value
      [] m.Type = "range" -> <<3>> \o m.Low \o m.High
      [] m.Type = "ternary" -> <<4>> \o m.Mask \o m.Value
      [] m.Type = "optional" -> <<5>> \o m.Value
      [] OTHER -> <<>>

\* one match more than the schema has fields is let through
validateMatchOffByOne(t, i, m) ==
    IF i > Len(t.info.MatchFields) THEN Invalid ELSE OK

\* Table.validateMatch: the index of the match must be within the schema
validateMatch(t, i, m) ==
    IF i >= Len(t.info.MatchFields) THEN Invalid ELSE OK

RECURSIVE KeyLoop(_, _, _, _)
\* the loop of entryKey from the (0-based) index i on, hf the bytes hashed so far
KeyLoop(t, match, i, hf) ==
    IF i >= Len(match) THEN [key |-> hf, err |-> OK]
    ELSE IF validateMatch(t, i, match[i + 1]) # OK
         THEN [key |-> <<>>, err |-> validateMatch(t, i, match[i + 1])]
         ELSE KeyLoop(t, match, i + 1, hf \o MatchBytes(match[i + 1]))

\* the priority is hashed before the matches
entryKeyWithPriority(t, entry) ==
    LET k == KeyLoop(t, entry.Match, 0, <<>>)
    IN  [key |-> IF k.err = OK THEN <<entry.Priority>> \o k.key ELSE k.key, err |-> k.err]

\* Table.entryKey
entryKey(t, entry) == KeyLoop(t, entry.Match, 0, <<>>)

(***************************************************************************)
(* Table operations: each yields the table after the call and the error    *)
(* returned.  The caller's entry is sorted in place by the call; the entry *)
(* stored in a row is therefore the entry with its matches sorted.         *)
(***************************************************************************)
Has(rows, key) == key \in DOMAIN rows

Put(rows, key, row) == [k \in DOMAIN rows \cup {key} |-> IF k = key THEN row ELSE rows[k]]

Delete(rows, key) == [k \in DOMAIN rows \ {key} |-> rows[k]]

\* the default row is not counted
SizeIgnoresDefault(t) == Cardinality(DOMAIN t.rows)

\* Table.Size
Size(t) == IF t.defaultRow # Nil THEN Cardinality(DOMAIN t.rows) + 1 ELSE Cardinality(DOMAIN t.rows)

\* the counter data is overwritten even when the entry carries none
UpdateRowAlways(row, entry, insert) ==
    [row EXCEPT !.entry = entry,
                !.meterConfig = entry.MeterConfig,
                !.counterData = IF ~insert THEN entry.CounterData ELSE @]

\* the row's update on the success paths of Table.ModifyTableEntry
UpdateRow(row, entry, insert) ==
    [row EXCEPT !.entry = entry,
                !.meterConfig = entry.MeterConfig,
                !.counterData = IF ~insert /\ entry.CounterData # Nil
                                THEN entry.CounterData ELSE @]

\* Table.Entries: the stored entries, rows then default (a set: in no particular order)
Entries(t) ==
    {t.rows[k].entry : k \in DOMAIN t.rows}
        \cup (IF t.defaultRow # Nil THEN {t.defaultRow[1].entry} ELSE {})

\* getEntry: the entity a read yields for a row
getEntry(readType, row) ==
    CASE readType = ReadDirectCounter ->
            [kind |-> "DirectCounterEntry", TableEntry |-> row.entry,
             Data |-> row.counterData, Config |-> Nil, CounterData |-> Nil]
      [] readType = ReadDirectMeter ->
            [kind |-> "DirectMeterEntry", TableEntry |-> row.entry,
             Data |-> Nil, Config |-> row.meterConfig, CounterData |-> row.meterData]
      [] OTHER ->
            [kind |-> "TableEntry", TableEntry |-> row.entry,
             Data |-> Nil, Config |-> Nil, CounterData |-> Nil]

\* Table.tableEntryMatches: every row matches every request
tableEntryMatches(request, entry) == TRUE

\* Table.ReadTableEntries: the entities the loop over the rows and the default row produces
Produced(t, request, readType) ==
    {getEntry(readType, t.rows[k]) : k \in {j \in DOMAIN t.rows : tableEntryMatches(request, t.rows[j].entry)}}
        \cup (IF t.defaultRow # Nil THEN {getEntry(readType, t.defaultRow[1])} ELSE {})

\* a default-action entry with match fields is accepted
DefaultErrorNoMatchCheck(entry, insert) == IF insert THEN Invalid ELSE OK

\* Table.ModifyTableEntry, the checks of a default-action entry
DefaultError(entry, insert) ==
    IF insert THEN Invalid
    ELSE IF Len(entry.Match) > 0 THEN Invalid
    ELSE OK

\* an insert over a stored row is accepted
ExistenceErrorUpsert(ok, insert) == IF ~ok /\ ~insert THEN NotFound ELSE OK

\* Table.ModifyTableEntry, the two existence checks (ok: a row is stored at the key)
ExistenceError(ok, insert) ==
    IF ok /\ insert THEN AlreadyExists
    ELSE IF ~ok /\ ~insert THEN NotFound
    ELSE OK

\* the row is written before the existence checks are made
TableModifyTableEntryEager(t, entry, insert) ==
    IF entry.IsDefaultAction
    THEN IF DefaultError(entry, insert) # OK THEN [t |-> t, err |-> DefaultError(entry, insert)]
         ELSE [t |-> [t EXCEPT !.defaultRow = Ptr(newRow(entry))], err |-> OK]
    ELSE LET sorted == [entry EXCEPT !.Match = sortFieldMatches(entry.Match)]
             k == entryKey(t, sorted)
             ok == Has(t.rows, k.key)
             row == IF ~ok THEN newRow(sorted) ELSE t.rows[k.key]
             written == [t EXCEPT !.rows = Put(t.rows, k.key, UpdateRow(row, sorted, insert))]
         IN  IF k.err # OK THEN [t |-> t, err |-> k.err]
             ELSE [t |-> written, err |-> ExistenceError(ok, insert)]

\* Table.ModifyTableEntry
TableModifyTableEntry(t, entry, insert) ==
    IF entry.IsDefaultAction
    THEN IF DefaultError(entry, insert) # OK THEN [t |-> t, err |-> DefaultError(entry, insert)]
         ELSE [t |-> [t EXCEPT !.defaultRow = Ptr(newRow(entry))], err |-> OK]
    ELSE LET sorted == [entry EXCEPT !.Match = sortFieldMatches(entry.Match)]
             k == entryKey(t, sorted)
             ok == Has(t.rows, k.key)
         IN  IF k.err # OK THEN [t |-> t, err |-> k.err]
             ELSE IF ExistenceError(ok, insert) # OK
                  THEN [t |-> t, err |-> ExistenceError(ok, insert)]
             ELSE LET row == IF ~ok /\ insert THEN newRow(sorted) ELSE t.rows[k.key]
                  IN  [t |-> [t EXCEPT !.rows = Put(t.rows, k.key, UpdateRow(row, sorted, insert))],
                       err |-> OK]

\* a remove of a default-action entry deletes the default row
TableRemoveTableEntryDefault(t, entry) ==
    IF entry.IsDefaultAction THEN [t |-> [t EXCEPT !.defaultRow = Nil], err |-> OK]
    ELSE LET sorted == [entry EXCEPT !.Match = sortFieldMatches(entry.Match)]
             k == entryKey(t, sorted)
         IN  IF k.err # OK THEN [t |-> t, err |-> k.err]
             ELSE [t |-> [t EXCEPT !.rows = Delete(t.rows, k.key)], err |-> OK]

\* removing an absent row is an error, as modifying one is
TableRemoveTableEntryStrict(t, entry) ==
    IF entry.IsDefaultAction THEN [t |-> t, err |-> Invalid]
    ELSE LET sorted == [entry EXCEPT !.Match = sortFieldMatches(entry.Match)]
             k == entryKey(t, sorted)
         IN  IF k.err # OK THEN [t |-> t, err |-> k.err]
             ELSE IF ~Has(t.rows, k.key) THEN [t |-> t, err |-> NotFound]
             ELSE [t |-> [t EXCEPT !.rows = Delete(t.rows, k.key)], err |-> OK]

\* Table.RemoveTableEntry
TableRemoveTableEntry(t, entry) ==
    IF entry.IsDefaultAction THEN [t |-> t, err |-> Invalid]
    ELSE LET sorted == [entry EXCEPT !.Match = sortFieldMatches(entry.Match)]
             k == entryKey(t, sorted)
         IN  IF k.err # OK THEN [t |-> t, err |-> k.err]
             ELSE [t |-> [t EXCEPT !.rows = Delete(t.rows, k.key)], err |-> OK]

\* Table.ModifyDirectCounterEntry: entry is the DirectCounterEntry's TableEntry, data its Data
TableModifyDirectCounterEntry(t, entry, data) ==
    LET sorted == [entry EXCEPT !.Match = sortFieldMatches(entry.Match)]
        k == entryKey(t, sorted)
    IN  IF k.err # OK THEN [t |-> t, err |-> k.err]
        ELSE IF ~Has(t.rows, k.key) THEN [t |-> t, err |-> NotFound]
        ELSE [t |-> [t EXCEPT !.rows[k.key].counterData = data], err |-> OK]

\* the meter config is written to the counter data
TableModifyDirectMeterEntryWrongField(t, entry, config) ==
    LET sorted == [entry EXCEPT !.Match = sortFieldMatches(entry.Match)]
        k == entryKey(t, sorted)
    IN  IF k.err # OK THEN [t |-> t, err |-> k.err]
        ELSE IF ~Has(t.rows, k.key) THEN [t |-> t, err |-> NotFound]
        ELSE [t |-> [t EXCEPT !.rows[k.key].counterData = config], err |-> OK]

\* Table.ModifyDirectMeterEntry: entry is the DirectMeterEntry's TableEntry, config its Config
TableModifyDirectMeterEntry(t, entry, config) ==
    LET sorted == [entry EXCEPT !.Match = sortFieldMatches(entry.Match)]
        k == entryKey(t, sorted)
    IN  IF k.err # OK THEN [t |-> t, err |-> k.err]
        ELSE IF ~Has(t.rows, k.key) THEN [t |-> t, err |-> NotFound]
        ELSE [t |-> [t EXCEPT !.rows[k.key].meterConfig = config], err |-> OK]

(***************************************************************************)
(* Registry operations: the registry after the call and the error.         *)
(***************************************************************************)
\* a table is made for an ID that the registry does not have
TablesModifyTableEntryCreates(ts, entry, insert) ==
    LET t == IF entry.TableId \in DOMAIN ts THEN ts[entry.TableId]
             ELSE NewTable([Id |-> entry.TableId, MatchFields |-> <<>>])
        r == TableModifyTableEntry(t, entry, insert)
    IN  [ts |-> [id \in DOMAIN ts \cup {entry.TableId} |->
                    IF id = entry.TableId THEN r.t ELSE ts[id]],
         err |-> r.err]

\* Tables.ModifyTableEntry
TablesModifyTableEntry(ts, entry, insert) ==
    IF entry.TableId \notin DOMAIN ts THEN [ts |-> ts, err |-> NotFound]
    ELSE LET r == TableModifyTableEntry(ts[entry.TableId], entry, insert)
         IN  [ts |-> [ts EXCEPT ![entry.TableId] = r.t], err |-> r.err]

\* Tables.RemoveTableEntry
TablesRemoveTableEntry(ts, entry) ==
    IF entry.TableId \notin DOMAIN ts THEN [ts |-> ts, err |-> NotFound]
    ELSE LET r == TableRemoveTableEntry(ts[entry.TableId], entry)
         IN  [ts |-> [ts EXCEPT ![entry.TableId] = r.t], err |-> r.err]

\* the table is looked up before the insert flag is rejected
TablesModifyDirectCounterEntryLookupFirst(ts, entry, data, insert) ==
    IF entry.TableId \notin DOMAIN ts THEN [ts |-> ts, err |-> NotFound]
    ELSE IF insert THEN [ts |-> ts, err |-> Invalid]
    ELSE LET r == TableModifyDirectCounterEntry(ts[entry.TableId], entry, data)
         IN  [ts |-> [ts EXCEPT ![entry.TableId] = r.t], err |-> r.err]

\* Tables.ModifyDirectCounterEntry
TablesModifyDirectCounterEntry(ts, entry, data, insert) ==
    IF insert THEN [ts |-> ts, err |-> Invalid]
    ELSE IF entry.TableId \notin DOMAIN ts THEN [ts |-> ts, err |-> NotFound]
    ELSE LET r == TableModifyDirectCounterEntry(ts[entry.TableId], entry, data)
         IN  [ts |-> [ts EXCEPT ![entry.TableId] = r.t], err |-> r.err]

\* Tables.ModifyDirectMeterEntry
TablesModifyDirectMeterEntry(ts, entry, config, insert) ==
    IF insert THEN [ts |-> ts, err |-> Invalid]
    ELSE IF entry.TableId \notin DOMAIN ts THEN [ts |-> ts, err |-> NotFound]
    ELSE LET r == TableModifyDirectMeterEntry(ts[entry.TableId], entry, config)
         IN  [ts |-> [ts EXCEPT ![entry.TableId] = r.t], err |-> r.err]

(***************************************************************************)
(* The registry under test and the requests issued to it.                  *)
(***************************************************************************)
\* p4info.Table descriptors handed to NewTables: table 1 has two match fields
\* (listed out of ID order), table 2 one, table 3 none
Schemas ==
    << [Id |-> 1, MatchFields |-> <<[Id |-> 2], [Id |-> 1]>>],
       [Id |-> 2, MatchFields |-> <<[Id |-> 1]>>],
       [Id |-> 3, MatchFields |-> <<>>] >>

NoEntry == TableEntry(0, <<>>, "", 0, FALSE, Nil, Nil, Nil)

Request(op, entry, insert, data, readType) ==
    [op |-> op, entry |-> entry, insert |-> insert, data |-> data, readType |-> readType]

NoReq == Request("none", NoEntry, FALSE, Nil, ReadTableEntry)

NoRes == [err |-> OK, key |-> <<>>]

\* no read in progress: no table to read, none being read, an empty buffer
NoRead == [todo |-> <<>>, cur |-> 0, rows |-> <<>>, dflt |-> FALSE, buf |-> <<>>, visited |-> <<>>]

ReadReqs(tids, readTypes) ==
    {Request("ReadTableEntries", TableEntry(tid, <<>>, "", 0, FALSE, Nil, Nil, Nil), FALSE, Nil, rt) :
        tid \in tids, rt \in readTypes}

ModifyReqs(entries) ==
    {Request("ModifyTableEntry", e, i, Nil, ReadTableEntry) : e \in entries, i \in BOOLEAN}

RemoveReqs(entries) ==
    {Request("RemoveTableEntry", e, FALSE, Nil, ReadTableEntry) : e \in entries}

DirectCounterReqs(entries, datas) ==
    {Request("ModifyDirectCounterEntry", e, i, d, ReadTableEntry) :
        e \in entries, i \in BOOLEAN, d \in datas}

DirectMeterReqs(entries, configs) ==
    {Request("ModifyDirectMeterEntry", e, i, c, ReadTableEntry) :
        e \in entries, i \in BOOLEAN, c \in configs}

\* two matches on different fields of table 1
m1 == Exact(1, <<10>>)

m2 == Exact(2, <<11>>)

\* table 9 is in no registry; <<m1, m2>> exceeds the schema of table 2
CoreEntries ==
    {TableEntry(tid, ml, a, p, d, Nil, Nil, Nil) :
        tid \in {1, 2, 9}, ml \in {<<>>, <<m1>>, <<m1, m2>>, <<m2, m1>>},
        a \in {"A", "B"}, p \in {0, 1}, d \in BOOLEAN}

CoreKeyEntries == {e \in CoreEntries : e.Action = "A" /\ e.Priority = 0}

CoreRequests ==
    ModifyReqs(CoreEntries) \cup RemoveReqs(CoreKeyEntries)
        \cup DirectCounterReqs(CoreKeyEntries, {Ptr(6)})
        \cup DirectMeterReqs(CoreKeyEntries, {Ptr(8)})

(***************************************************************************)
(* The state machine: a caller issues one request at a time (the engine    *)
(* has no synchronization of its own and is called serially), the handler  *)
(* runs, the caller takes the result.                                      *)
(***************************************************************************)
Init ==
    /\ tables = NewTables(Schemas)
    /\ pc = "idle"
    /\ req = NoReq
    /\ res = NoRes
    /\ pre = Nil
    /\ rd = NoRead
    /\ sent = <<>>
    /\ nops = 0

\* the caller hands a request to the registry
Call(reqs, bound) ==
    /\ pc = "idle"
    /\ nops < bound
    /\ \E r \in reqs : req' = r
    /\ pc' = "called"
    /\ nops' = nops + 1
    /\ UNCHANGED <<tables, res, pre, rd, sent>>

\* the handler's effect on the registry and its result
Handled(r) ==
    /\ tables' = r.ts
    /\ res' = [err |-> r.err, key |-> <<>>]
    /\ pre' = tables
    /\ pc' = "returned"
    /\ UNCHANGED <<req, rd, sent, nops>>

ModifyTableEntry ==
    /\ pc = "called" /\ req.op = "ModifyTableEntry"
    /\ Handled(TablesModifyTableEntry(tables, req.entry, req.insert))

RemoveTableEntry ==
    /\ pc = "called" /\ req.op = "RemoveTableEntry"
    /\ Handled(TablesRemoveTableEntry(tables, req.entry))

ModifyDirectCounterEntry ==
    /\ pc = "called" /\ req.op = "ModifyDirectCounterEntry"
    /\ Handled(TablesModifyDirectCounterEntry(tables, req.entry, req.data, req.insert))

ModifyDirectMeterEntry ==
    /\ pc = "called" /\ req.op = "ModifyDirectMeterEntry"
    /\ Handled(TablesModifyDirectMeterEntry(tables, req.entry, req.data, req.insert))

\* the caller takes the result
Return ==
    /\ pc = "returned"
    /\ pc' = "idle"
    /\ req' = NoReq
    /\ res' = NoRes
    /\ pre' = Nil
    /\ rd' = NoRead
    /\ sent' = <<>>
    /\ UNCHANGED <<tables, nops>>

CallCore == Call(CoreRequests, MaxOps)

Next == CallCore \/ ModifyTableEntry \/ RemoveTableEntry \/ ModifyDirectCounterEntry
            \/ ModifyDirectMeterEntry \/ Return

Spec == Init /\ [][Next]_vars

(***************************************************************************)
(* What the properties below speak about: the request just handled         *)
(* (pc = "returned"), the addressed table before and after the call.       *)
(***************************************************************************)
\* the entry as the call leaves it: its matches sorted in place
Canonical(entry) == [entry EXCEPT !.Match = sortFieldMatches(entry.Match)]

Returned(op) == pc = "returned" /\ req.op = op

KnownTable == req.entry.TableId \in DOMAIN pre

Before == pre[req.entry.TableId]

After == tables[req.entry.TableId]

\* the canonical key of the request's entry in the addressed table
ReqKey == entryKey(Before, Canonical(req.entry))

\* a non-default entry whose match list fits the schema of a known table
KeyedRequest == KnownTable /\ ~req.entry.IsDefaultAction /\ ReqKey.err = OK

Stored == Has(Before.rows, ReqKey.key)

ReadTypes == {ReadTableEntry, ReadDirectCounter, ReadDirectMeter}

MutatingOps ==
    {"ModifyTableEntry", "RemoveTableEntry", "ModifyDirectCounterEntry", "ModifyDirectMeterEntry"}

(***************************************************************************)
(* C1: for a non-default entry that fits the schema, an insert succeeds    *)
(* exactly when no row is stored at the entry's canonical key and fails    *)
(* AlreadyExists otherwise; a modify succeeds exactly when a row is stored *)
(* there and fails NotFound otherwise; after a success the row at the key  *)
(* holds the incoming entry.                                               *)
(***************************************************************************)
C1_ExistenceLaw ==
    (Returned("ModifyTableEntry") /\ KeyedRequest) =>
        /\ req.insert => ((res.err = OK) <=> ~Stored)
        /\ (req.insert /\ Stored) => (res.err = AlreadyExists)
        /\ ~req.insert => ((res.err = OK) <=> Stored)
        /\ (~req.insert /\ ~Stored) => (res.err = NotFound)
        /\ (res.err = OK) => Has(After.rows, ReqKey.key)
        /\ (res.err = OK) => (After.rows[ReqKey.key].entry = Canonical(req.entry))

\* a modify has replaced a stored entry by a different one
C1_Witness ==
    /\ Returned("ModifyTableEntry") /\ KeyedRequest /\ ~req.insert /\ res.err = OK
    /\ Before.rows[ReqKey.key].entry.Action # req.entry.Action
    /\ After.rows[ReqKey.key].entry.Action = req.entry.Action

(***************************************************************************)
(* C2: for a non-default entry that fits the schema, a remove succeeds; on *)
(* an absent key it leaves the table as it was, on a stored key the size   *)
(* drops by exactly one and no read yields the row any more; removing a    *)
(* second time changes nothing.                                            *)
(***************************************************************************)
C2_RemoveIdempotent ==
    (Returned("RemoveTableEntry") /\ KeyedRequest) =>
        /\ res.err = OK
        /\ ~Stored => After = Before
        /\ Stored =>
            /\ Size(After) = Size(Before) - 1
            /\ ~Has(After.rows, ReqKey.key)
            /\ \A rt \in ReadTypes :
                    getEntry(rt, Before.rows[ReqKey.key]) \notin Produced(After, req.entry, rt)
            /\ Before.rows[ReqKey.key].entry \notin Entries(After)
        /\ TableRemoveTableEntry(After, req.entry) = [t |-> After, err |-> OK]

\* a stored row has been removed while another row stays
C2_Witness ==
    /\ Returned("RemoveTableEntry") /\ KeyedRequest /\ Stored
    /\ Cardinality(DOMAIN After.rows) >= 1

(***************************************************************************)
(* C3: a default-action entry is rejected as Invalid when inserted and     *)
(* when it carries a match field; modified without match fields it         *)
(* succeeds, every read yields it, and the default row counts exactly one  *)
(* towards the size however often the modify is repeated.                  *)
(***************************************************************************)
C3_DefaultAction ==
    (Returned("ModifyTableEntry") /\ KnownTable /\ req.entry.IsDefaultAction) =>
        /\ req.insert => res.err = Invalid
        /\ Len(req.entry.Match) > 0 => res.err = Invalid
        /\ (~req.insert /\ Len(req.entry.Match) = 0) =>
            /\ res.err = OK
            /\ After.defaultRow # Nil
            /\ After.defaultRow[1].entry = req.entry
            /\ \A rt \in ReadTypes : \E e \in Produced(After, req.entry, rt) : e.TableEntry = req.entry
            /\ After.rows = Before.rows
            /\ Size(After) = Cardinality(DOMAIN Before.rows) + 1
            /\ Size(After) = Size(Before) + (IF Before.defaultRow = Nil THEN 1 ELSE 0)

\* the default-action modify is repeated on a table that holds a default row and a row
C3_Witness ==
    /\ Returned("ModifyTableEntry") /\ KnownTable /\ req.entry.IsDefaultAction
    /\ res.err = OK
    /\ Before.defaultRow # Nil
    /\ Before.defaultRow[1].entry # req.entry
    /\ Size(After) = 2

(***************************************************************************)
(* C8: a mutating call that returns an error leaves the registry - every   *)
(* table's key-to-row mapping, rows, overlays and default row - as it was. *)
(***************************************************************************)
C8_NoPartialApplication ==
    (pc = "returned" /\ req.op \in MutatingOps /\ res.err # OK) => tables = pre

\* an insert has failed AlreadyExists on a stored row that differs from the request
C8_Witness ==
    /\ Returned("ModifyTableEntry") /\ KeyedRequest /\ res.err = AlreadyExists
    /\ Before.rows[ReqKey.key].entry # Canonical(req.entry)

(***************************************************************************)
(* C9: the four mutating registry calls fail NotFound for a table ID that  *)
(* is not in the registry; the two direct-resource calls with insert set   *)
(* fail Invalid for every table ID, known or not; nothing changes.         *)
(***************************************************************************)
DirectOps == {"ModifyDirectCounterEntry", "ModifyDirectMeterEntry"}

C9_RegistryRouting ==
    (pc = "returned" /\ req.op \in MutatingOps) =>
        /\ (req.op \in DirectOps /\ req.insert) => (res.err = Invalid /\ tables = pre)
        /\ (~KnownTable /\ ~(req.op \in DirectOps /\ req.insert)) =>
                (res.err = NotFound /\ tables = pre)

\* a direct-counter insert for an unknown table is rejected as Invalid
C9_Witness ==
    /\ Returned("ModifyDirectCounterEntry") /\ req.insert /\ ~KnownTable
    /\ res.err = Invalid

(***************************************************************************)
(* The overlays: requests on table 1 whose entries carry counter data,     *)
(* meter config and meter counter data, on two keys and the default row.   *)
(***************************************************************************)
OverlayEntries ==
    {TableEntry(1, ml, "A", 0, d, cd, mc, md) :
        ml \in {<<>>, <<m1>>}, d \in BOOLEAN,
        cd \in {Nil, Ptr(5)}, mc \in {Nil, Ptr(7)}, md \in {Nil, Ptr(9)}}

OverlayKeyEntries ==
    {e \in OverlayEntries : e.CounterData = Nil /\ e.MeterConfig = Nil /\ e.MeterCounterData = Nil}

OverlayRequests ==
    ModifyReqs(OverlayEntries) \cup RemoveReqs(OverlayKeyEntries)
        \cup DirectCounterReqs(OverlayKeyEntries, {Nil, Ptr(6)})
        \cup DirectMeterReqs(OverlayKeyEntries, {Nil, Ptr(8)})

CallOverlay == Call(OverlayRequests, MaxOverlayOps)

NextOverlay == CallOverlay \/ ModifyTableEntry \/ RemoveTableEntry \/ ModifyDirectCounterEntry
                   \/ ModifyDirectMeterEntry \/ Return

SpecOverlay == Init /\ [][NextOverlay]_vars

\* the row of the request's key before and after the call
RowBefore == Before.rows[ReqKey.key]

RowAfter == After.rows[ReqKey.key]

\* everything of the addressed table but the row at the request's key is as it was
OthersUnchanged ==
    /\ DOMAIN After.rows = DOMAIN Before.rows
    /\ \A k \in DOMAIN Before.rows : k # ReqKey.key => After.rows[k] = Before.rows[k]
    /\ After.defaultRow = Before.defaultRow
    /\ After.info = Before.info
    /\ Size(After) = Size(Before)
    /\ \A id \in DOMAIN pre : id # req.entry.TableId => tables[id] = pre[id]

(***************************************************************************)
(* C4: a direct-counter (direct-meter) modify fails NotFound when no row   *)
(* is stored at the request's canonical key; otherwise it overwrites only  *)
(* that row's counter data (meter config): the row's entry, its other      *)
(* overlays, its key, every other row and the size stay, a table-entry     *)
(* read yields the same entry and a direct-counter (direct-meter) read     *)
(* yields the new data.                                                    *)
(***************************************************************************)
C4_DirectResourceIndependence ==
    (pc = "returned" /\ req.op \in DirectOps /\ ~req.insert /\ KnownTable /\ ReqKey.err = OK) =>
        /\ ~Stored => (res.err = NotFound)
        /\ Stored => (res.err = OK)
        /\ Stored => OthersUnchanged
        /\ Stored => (RowAfter.entry = RowBefore.entry)
        /\ Stored => (RowAfter.meterData = RowBefore.meterData)
        /\ Stored => (getEntry(ReadTableEntry, RowAfter) = getEntry(ReadTableEntry, RowBefore))
        /\ (Stored /\ req.op = "ModifyDirectCounterEntry") =>
            /\ RowAfter.counterData = req.data
            /\ RowAfter.meterConfig = RowBefore.meterConfig
            /\ getEntry(ReadDirectCounter, RowAfter).Data = req.data
            /\ getEntry(ReadDirectMeter, RowAfter) = getEntry(ReadDirectMeter, RowBefore)
        /\ (Stored /\ req.op = "ModifyDirectMeterEntry") =>
            /\ RowAfter.meterConfig = req.data
            /\ RowAfter.counterData = RowBefore.counterData
            /\ getEntry(ReadDirectMeter, RowAfter).Config = req.data
            /\ getEntry(ReadDirectCounter, RowAfter) = getEntry(ReadDirectCounter, RowBefore)

\* a direct-meter modify has changed the meter config of a row that holds counter
\* data and meter counter data, next to another row
C4_Witness ==
    /\ Returned("ModifyDirectMeterEntry") /\ ~req.insert /\ KnownTable /\ ReqKey.err = OK
    /\ Stored /\ res.err = OK
    /\ RowBefore.meterConfig # req.data
    /\ RowAfter.counterData = Ptr(5)
    /\ RowAfter.meterData = Ptr(9)
    /\ Cardinality(DOMAIN After.rows) = 2

(***************************************************************************)
(* C10 as claimed: after a successful modify of a stored non-default row,  *)
(* each overlay (counter data, meter config, meter counter data) keeps its *)
(* value when the request supplies no data for it and takes the supplied   *)
(* value when it does.                                                     *)
(***************************************************************************)
ModifiedRow == Returned("ModifyTableEntry") /\ KeyedRequest /\ ~req.insert /\ res.err = OK

C10_Claimed ==
    ModifiedRow =>
        /\ RowAfter.counterData =
              (IF req.entry.CounterData # Nil THEN req.entry.CounterData ELSE RowBefore.counterData)
        /\ RowAfter.meterConfig =
              (IF req.entry.MeterConfig # Nil THEN req.entry.MeterConfig ELSE RowBefore.meterConfig)
        /\ RowAfter.meterData =
              (IF req.entry.MeterCounterData # Nil THEN req.entry.MeterCounterData ELSE RowBefore.meterData)

(***************************************************************************)
(* C10 as amended: after a successful modify of a stored non-default row,  *)
(* the counter data keeps its value when the request supplies none and     *)
(* takes the supplied value otherwise; the meter config always becomes the *)
(* request's meter config, absent when the request supplies none; the      *)
(* meter counter data always keeps its value, supplied or not.             *)
(***************************************************************************)
C10_OverlayPersistence ==
    ModifiedRow =>
        /\ RowAfter.counterData =
              (IF req.entry.CounterData # Nil THEN req.entry.CounterData ELSE RowBefore.counterData)
        /\ RowAfter.meterConfig = req.entry.MeterConfig
        /\ RowAfter.meterData = RowBefore.meterData

\* a modify that supplies only meter counter data: the counter data set by a
\* direct-counter modify stays, the meter config is dropped, the supplied meter
\* counter data is not taken
C10_Witness ==
    /\ ModifiedRow
    /\ req.entry.CounterData = Nil /\ req.entry.MeterConfig = Nil
    /\ req.entry.MeterCounterData = Ptr(9)
    /\ RowBefore.counterData = Ptr(6) /\ RowAfter.counterData = Ptr(6)
    /\ RowBefore.meterConfig = Ptr(7) /\ RowAfter.meterConfig = Nil
    /\ RowBefore.meterData = Nil /\ RowAfter.meterData = Nil

(***************************************************************************)
(* The key derivation on its own: the two steps every table operation      *)
(* starts with, sortFieldMatches(entry.Match) and t.entryKey(entry), on    *)
(* match lists of table 1 drawn from all five match types.                 *)
(***************************************************************************)
\* byte strings of at most MaxKeyLen bytes
RECURSIVE BytesUpTo(_)
BytesUpTo(n) ==
    IF n = 0 THEN {<<>>}
    ELSE BytesUpTo(n - 1) \cup {<<b>> \o v : b \in {10, 11}, v \in {w \in BytesUpTo(n - 1) : Len(w) = n - 1}}

KeyValues == BytesUpTo(MaxKeyLen)

\* prefix lengths: one below and one above 2^24
KeyMatches ==
    UNION {
        {Exact(id, v) : v \in KeyValues} \cup {Optional(id, v) : v \in KeyValues}
            \cup {Lpm(id, v, n) : v \in KeyValues, n \in {8, 16777224}}
            \cup {Range(id, lo, hi) : lo \in KeyValues, hi \in KeyValues}
            \cup {Ternary(id, v, mk) : v \in KeyValues, mk \in KeyValues}
            \cup {Untyped(id)}
        : id \in {1, 2}}

KeyMatchLists == {<<>>} \cup {<<a>> : a \in KeyMatches} \cup {<<a, b>> : a \in KeyMatches, b \in KeyMatches}

KeyRequests ==
    {Request("entryKey", TableEntry(1, ml, "A", 0, FALSE, Nil, Nil, Nil), FALSE, Nil, ReadTableEntry) :
        ml \in KeyMatchLists}

CallKey == Call(KeyRequests, 1)

\* sortFieldMatches(entry.Match) followed by t.entryKey(entry)
DeriveKey ==
    /\ pc = "called" /\ req.op = "entryKey"
    /\ res' = entryKey(tables[req.entry.TableId], Canonical(req.entry))
    /\ pc' = "returned"
    /\ UNCHANGED <<tables, req, pre, rd, sent, nops>>

NextKey == CallKey \/ DeriveKey \/ Return

SpecKey == Init /\ [][NextKey]_vars

\* the orderings of a list
Orderings(s) ==
    {[i \in 1..Len(s) |-> s[f[i]]] :
        f \in {g \in [1..Len(s) -> 1..Len(s)] : \A i, j \in 1..Len(s) : g[i] = g[j] => i = j}}

DistinctFieldIds(s) == \A i, j \in 1..Len(s) : s[i].FieldId = s[j].FieldId => i = j

\* the request's entry with its matches in the order p
Reordered(p) == [req.entry EXCEPT !.Match = p]

\* an entry inserted with the request's match order is found under the order p
FoundUnder(p) ==
    LET t == TableModifyTableEntry(tables[1], req.entry, TRUE).t
    IN  /\ TableModifyTableEntry(t, Reordered(p), FALSE).err = OK
        /\ TableModifyTableEntry(t, Reordered(p), TRUE).err = AlreadyExists
        /\ TableModifyDirectCounterEntry(t, Reordered(p), Ptr(6)).err = OK
        /\ TableModifyDirectMeterEntry(t, Reordered(p), Ptr(8)).err = OK
        /\ TableRemoveTableEntry(t, Reordered(p)).t.rows = <<>>

SameKeyUnderEveryOrder ==
    \A p \in Orderings(req.entry.Match) :
        /\ entryKey(tables[1], Canonical(Reordered(p))) = res
        /\ FoundUnder(p)

(***************************************************************************)
(* C7 as claimed: for every match list the schema accepts, lists with two  *)
(* matches of one field ID included, every reordering of the list derives  *)
(* the same key once sorted, and an entry inserted in one order is found   *)
(* by modify, remove and the direct-resource modifies in any other.        *)
(***************************************************************************)
C7_Claimed ==
    (Returned("entryKey") /\ res.err = OK) => SameKeyUnderEveryOrder

(***************************************************************************)
(* C7 as amended: for every match list the schema accepts whose matches    *)
(* carry pairwise different field IDs, every reordering of the list        *)
(* derives the same key once sorted, and an entry inserted in one order is *)
(* found by modify, remove and the direct-resource modifies in any other.  *)
(***************************************************************************)
C7_KeyDeterminism ==
    (Returned("entryKey") /\ res.err = OK /\ DistinctFieldIds(req.entry.Match)) =>
        SameKeyUnderEveryOrder

\* a key derived from two matches of different types given in descending field ID order
C7_Witness ==
    /\ Returned("entryKey") /\ res.err = OK
    /\ Len(req.entry.Match) = 2
    /\ req.entry.Match[1].FieldId > req.entry.Match[2].FieldId
    /\ MatchBytes(req.entry.Match[1]) # MatchBytes(req.entry.Match[2])
    /\ res.key = MatchBytes(req.entry.Match[2]) \o MatchBytes(req.entry.Match[1])

(***************************************************************************)
(* Reads.  Tables.ReadTableEntries resolves the tables to read,            *)
(* Table.ReadTableEntries ranges over the rows of one table (a Go map: the *)
(* order is not specified), sendEntity buffers an entity and flushes a     *)
(* full buffer, the final flush sends the remainder.  The sender is the    *)
(* caller's callback: each invocation succeeds or fails.                   *)
(***************************************************************************)
\* a < b for table IDs
IdLess(a, b) == a < b

\* a before b in the lexicographic order of byte strings
KeyLess(a, b) ==
    \E i \in 1..(Len(a) + 1) :
        /\ \A j \in 1..(i - 1) : j <= Len(b) /\ a[j] = b[j]
        /\ i <= Len(b)
        /\ (i <= Len(a) => a[i] < b[i])

\* the elements of a set of table IDs, of a set of keys, in ascending order
SortedIds(S) ==
    LET rank == [x \in S |-> Cardinality({y \in S : IdLess(y, x)})]
    IN  [i \in 1..Cardinality(S) |-> CHOOSE x \in S : rank[x] = i - 1]

\* each key of S paired with its position in the ascending order of S
Ranked(S) == {<<Cardinality({y \in S : KeyLess(y, x)}) + 1, x>> : x \in S}

\* the sequence given by a set of <<position, element>> pairs
SeqOfRanked(r) == [i \in 1..Cardinality(r) |-> (CHOOSE p \in r : p[1] = i)[2]]

SortedKeys(S) == CHOOSE s \in {SeqOfRanked(r) : r \in {Ranked(S)}} : TRUE

Reverse(s) == [i \in 1..Len(s) |-> s[Len(s) + 1 - i]]

\* the orders in which a range over a map may yield its keys, given the keys in
\* ascending order: every order for a map of at most MaxPermute keys, the
\* ascending and the descending order for a larger map
IterOrders(keys) ==
    IF Len(keys) <= MaxPermute THEN Orderings(keys) ELSE {keys, Reverse(keys)}

\* the buffer is flushed one entity late
AtCapacityLate(buf) == Len(buf) > BufferCap

\* entityBuffer.sendEntity: len(eb.entities) == cap(eb.entities)
AtCapacity(buf) == Len(buf) = BufferCap

\* the loop over the tables goes on after a failed read
RegistryContinuesOnError(err, todo) == todo # <<>>

\* Tables.ReadTableEntries: the loop over the tables goes on to the next table
RegistryContinues(err, todo) == err = OK /\ todo # <<>>

\* the loop over the rows goes on after a failed sendEntity
LoopContinuesOnError(err) == TRUE

\* Table.ReadTableEntries: the loop over the rows goes on unless sendEntity failed
LoopContinues(err) == err = OK

\* the rows that were read are taken out of the table
TableAfterReadDrained(t) == [t EXCEPT !.rows = <<>>]

\* Table.ReadTableEntries: the table when the read returns; the read assigns
\* no field of the table or of a row
TableAfterRead(t) == t

\* Tables.ReadTableEntries up to the first delegation
ReadBegin ==
    /\ pc = "called" /\ req.op = "ReadTableEntries"
    /\ LET tid == req.entry.TableId
           unknown == tid # 0 /\ tid \notin DOMAIN tables
       IN  \E ord \in (IF tid = 0 THEN IterOrders(SortedIds(DOMAIN tables))
                       ELSE IF unknown THEN {<<>>} ELSE {<<tid>>}) :
               /\ rd' = [NoRead EXCEPT !.todo = ord]
               /\ pc' = IF ord = <<>> THEN "returned" ELSE "reading"
               /\ res' = [err |-> IF unknown THEN NotFound ELSE OK, key |-> <<>>]
    /\ sent' = <<>>
    /\ UNCHANGED <<tables, req, pre, nops>>

\* Table.ReadTableEntries up to its loop: a new buffer, the range over the rows
TableBegin ==
    /\ pc = "reading" /\ rd.cur = 0 /\ rd.todo # <<>>
    /\ LET id == Head(rd.todo)
       IN  \E keys \in {SortedKeys(DOMAIN tables[id].rows)} :
           \E ord \in IterOrders(keys) :
               rd' = [todo |-> Tail(rd.todo), cur |-> id, rows |-> ord,
                      dflt |-> tables[id].defaultRow # Nil, buf |-> <<>>,
                      visited |-> Append(rd.visited, id)]
    /\ UNCHANGED <<tables, pc, req, res, pre, sent, nops>>

\* one pass of the loop of Table.ReadTableEntries, or the step for the default
\* row: sendEntity, with the flush of a buffer that has reached its capacity
SendEntity ==
    /\ pc = "reading" /\ rd.cur # 0 /\ (rd.rows # <<>> \/ rd.dflt)
    /\ LET t == tables[rd.cur]
           row == IF rd.rows # <<>> THEN t.rows[Head(rd.rows)] ELSE t.defaultRow[1]
           matches == rd.rows = <<>> \/ tableEntryMatches(req.entry, row.entry)
           buf1 == IF matches THEN Append(rd.buf, getEntry(req.readType, row)) ELSE rd.buf
           flush == matches /\ AtCapacity(buf1)
       IN  \E ok \in (IF flush THEN BOOLEAN ELSE {TRUE}) :
               /\ sent' = IF flush
                          THEN Append(sent, [table |-> rd.cur, batch |-> buf1, ok |-> ok])
                          ELSE sent
               /\ rd' = [rd EXCEPT !.rows = IF rd.rows # <<>> THEN Tail(rd.rows) ELSE <<>>,
                                   !.dflt = IF rd.rows # <<>> THEN rd.dflt ELSE FALSE,
                                   !.buf = IF flush THEN <<>> ELSE buf1]
               /\ pc' = IF LoopContinues(IF ok THEN OK ELSE SenderError)
                         THEN "reading" ELSE "returned"
               /\ res' = IF ok THEN res ELSE [err |-> SenderError, key |-> <<>>]
    /\ UNCHANGED <<tables, req, pre, nops>>

\* the final buffer.flush() of Table.ReadTableEntries and the return to the
\* registry, which goes on to the next table or returns
FinalFlush ==
    /\ pc = "reading" /\ rd.cur # 0 /\ rd.rows = <<>> /\ ~rd.dflt
    /\ \E ok \in BOOLEAN :
        LET err == IF ok THEN OK ELSE SenderError
        IN  /\ sent' = Append(sent, [table |-> rd.cur, batch |-> rd.buf, ok |-> ok])
            /\ rd' = [rd EXCEPT !.buf = <<>>, !.cur = 0]
            /\ pc' = IF RegistryContinues(err, rd.todo) THEN "reading" ELSE "returned"
            /\ res' = [err |-> err, key |-> <<>>]
            /\ tables' = [tables EXCEPT ![rd.cur] = TableAfterRead(@)]
    /\ UNCHANGED <<req, pre, nops>>

(***************************************************************************)
(* Reads of one large table: table 1 holds n rows, entered by n inserts,   *)
(* with or without a default row, for n around the multiples of the        *)
(* buffer capacity.                                                        *)
(***************************************************************************)
ReadSizes ==
    {n \in 0..MaxReadRows : n % BufferCap \in {0, 1, BufferCap - 1}} \cup {MaxReadRows}

RowEntry(b) == TableEntry(1, <<Exact(1, <<b>>)>>, "A", 0, FALSE, Nil, Nil, Nil)

DefaultEntry(tid) == TableEntry(tid, <<>>, "D", 0, TRUE, Nil, Nil, Nil)

\* the table after the inserts of RowEntry(1) .. RowEntry(n): the inserts have
\* different keys, so each adds to the table the row it adds to the empty table
Populated(t, n) ==
    LET inserted(b) == TableModifyTableEntry(t, RowEntry(b), TRUE).t.rows
    IN  [t EXCEPT !.rows = [k \in UNION {DOMAIN inserted(b) : b \in 1..n} |-> inserted(k[2])[k]]]

InitRead ==
    /\ \E n \in ReadSizes, d \in BOOLEAN :
        tables = [NewTables(Schemas) EXCEPT ![1] =
                    IF d THEN TableModifyTableEntry(Populated(@, n), DefaultEntry(1), FALSE).t
                    ELSE Populated(@, n)]
    /\ pc = "idle"
    /\ req = NoReq
    /\ res = NoRes
    /\ pre = Nil
    /\ rd = NoRead
    /\ sent = <<>>
    /\ nops = 0

\* reads of table 1, of each read type
ReadRequests == ReadReqs({1}, ReadTypes)

CallRead == Call(ReadRequests, 1)

NextRead == CallRead \/ ReadBegin \/ TableBegin \/ SendEntity \/ FinalFlush \/ Return

SpecRead == InitRead /\ [][NextRead]_vars

\* every invocation of the sender of this call succeeded
SenderNeverFailed == \A i \in 1..Len(sent) : sent[i].ok

\* the entities of the batches of this call, in the order of their delivery
RECURSIVE Concat(_)
Concat(ss) == IF ss = <<>> THEN <<>> ELSE Head(ss).batch \o Concat(Tail(ss))

(***************************************************************************)
(* C5: a read of one table holding n readable rows (the stored rows and    *)
(* the default row if present) whose sender never fails invokes the sender *)
(* n div BufferCap + 1 times; every invocation but the last carries        *)
(* BufferCap entities, the last carries n mod BufferCap (none when n is a  *)
(* multiple of BufferCap), and the batches together carry the entity of    *)
(* each readable row exactly once.                                         *)
(***************************************************************************)
C5_BatchFlush ==
    (Returned("ReadTableEntries") /\ req.entry.TableId \in DOMAIN tables /\ SenderNeverFailed) =>
        LET t == tables[req.entry.TableId]
            n == Size(t)
            all == Concat(sent)
        IN  /\ res.err = OK
            /\ Len(sent) = (n \div BufferCap) + 1
            /\ \A i \in 1..(Len(sent) - 1) : Len(sent[i].batch) = BufferCap
            /\ Len(sent[Len(sent)].batch) = n % BufferCap
            /\ Len(all) = n
            /\ Cardinality(Produced(t, req.entry, req.readType)) = n
            /\ {all[i] : i \in 1..Len(all)} = Produced(t, req.entry, req.readType)

\* two full buffers and a remainder of two: batches of BufferCap, BufferCap and 2
C5_Witness ==
    /\ Returned("ReadTableEntries") /\ SenderNeverFailed
    /\ Size(tables[1]) = 2 * BufferCap + 2
    /\ Len(sent) = 3
    /\ <<Len(sent[1].batch), Len(sent[2].batch), Len(sent[3].batch)>> = <<BufferCap, BufferCap, 2>>

(***************************************************************************)
(* Reads across the registry: each of the three tables holds at most one   *)
(* row and a default row; reads address one table, all tables (ID 0) or a  *)
(* table that is not in the registry.                                      *)
(***************************************************************************)
FanEntries == {TableEntry(tid, <<>>, "A", 0, d, Nil, Nil, Nil) : tid \in {1, 2, 3}, d \in BOOLEAN}

FanRequests == ModifyReqs(FanEntries) \cup ReadReqs({0, 1, 2, 3, 9}, ReadTypes)

CallFan == Call(FanRequests, MaxFanOps)

NextFan == CallFan \/ ModifyTableEntry \/ ReadBegin \/ TableBegin \/ SendEntity \/ FinalFlush \/ Return

SpecFan == Init /\ [][NextFan]_vars

\* the tables the sender's invocations of this call were made for, in order
SentTables == [i \in 1..Len(sent) |-> sent[i].table]

\* s lists every element of S exactly once
ListsOnce(s, S) == Len(s) = Cardinality(S) /\ {s[i] : i \in 1..Len(s)} = S

(***************************************************************************)
(* C6: a read with table ID 0 whose sender never fails reads every table   *)
(* of the registry exactly once; when a delegated read fails the registry  *)
(* call returns that error, the failing invocation of the sender is the    *)
(* last one and no further table is read; a read with a non-zero table ID  *)
(* reads the addressed table only, and fails NotFound without invoking the *)
(* sender when the registry has no table of that ID.                       *)
(***************************************************************************)
C6_WildcardFanOut ==
    Returned("ReadTableEntries") =>
        LET tid == req.entry.TableId
            failed == {i \in 1..Len(sent) : ~sent[i].ok}
        IN  /\ (tid = 0 /\ failed = {}) =>
                    /\ res.err = OK
                    /\ ListsOnce(rd.visited, DOMAIN tables)
                    /\ SentTables = rd.visited
                    /\ \A i \in 1..Len(sent) :
                           {sent[i].batch[j] : j \in 1..Len(sent[i].batch)}
                               = Produced(tables[sent[i].table], req.entry, req.readType)
            /\ (failed # {}) =>
                    /\ res.err = SenderError
                    /\ failed = {Len(sent)}
                    /\ SentTables = rd.visited
                    /\ \A i, j \in 1..Len(rd.visited) : rd.visited[i] = rd.visited[j] => i = j
            /\ (tid # 0 /\ tid \in DOMAIN tables) =>
                    /\ rd.visited = <<tid>>
                    /\ SentTables = <<tid>>
            /\ (tid # 0 /\ tid \notin DOMAIN tables) =>
                    /\ res.err = NotFound
                    /\ rd.visited = <<>>
                    /\ sent = <<>>

\* a read of all three tables whose sender fails for the second table read
C6_Witness ==
    /\ Returned("ReadTableEntries") /\ req.entry.TableId = 0
    /\ Cardinality(DOMAIN tables) = 3
    /\ Len(rd.visited) = 2 /\ Len(sent) = 2
    /\ sent[1].ok /\ ~sent[2].ok
    /\ res.err = SenderError

(***************************************************************************)
(* Inserts and the overlays (under SpecOverlay).                           *)
(***************************************************************************)
InsertedRow == Returned("ModifyTableEntry") /\ KeyedRequest /\ req.insert /\ res.err = OK

\* the row that the request's entry is given when, in the table as the call
\* left it, the row's counter data is modified, the row is removed and the
\* entry is inserted again
Reinserted ==
    LET e == Canonical(req.entry)
        t1 == TableModifyDirectCounterEntry(After, e, Ptr(6)).t
        t2 == TableModifyDirectMeterEntry(t1, e, Ptr(8)).t
        t3 == TableRemoveTableEntry(t2, e).t
    IN  TableModifyTableEntry(t3, e, TRUE)

(***************************************************************************)
(* C11 as claimed: after a successful insert the new row's counter data is *)
(* the zero value whatever counter data the entry carries, its meter       *)
(* config is the entry's and its meter counter data is the entry's, absent *)
(* when the entry has none; the same after the key was removed and the     *)
(* entry inserted again.                                                   *)
(***************************************************************************)
C11_Claimed ==
    InsertedRow =>
        /\ RowAfter.counterData = ZeroCounterData
        /\ RowAfter.meterConfig = req.entry.MeterConfig
        /\ RowAfter.meterData = req.entry.MeterCounterData
        /\ Reinserted.err = OK /\ Reinserted.t.rows[ReqKey.key] = RowAfter

(***************************************************************************)
(* C11 as amended: after a successful insert the new row's counter data is *)
(* the counter data the entry carries, and the zero value when the entry   *)
(* carries none; its meter config is the entry's and its meter counter     *)
(* data is the entry's, absent when the entry has none; the same after the *)
(* key was removed and the entry inserted again.                           *)
(***************************************************************************)
C11_FreshOverlay ==
    InsertedRow =>
        /\ ~Stored
        /\ RowAfter.entry = Canonical(req.entry)
        /\ RowAfter.counterData =
              (IF req.entry.CounterData # Nil THEN req.entry.CounterData ELSE ZeroCounterData)
        /\ RowAfter.meterConfig = req.entry.MeterConfig
        /\ RowAfter.meterData = req.entry.MeterCounterData
        /\ Reinserted.err = OK /\ Reinserted.t.rows[ReqKey.key] = RowAfter

\* an insert of an entry that carries counter data and meter counter data
C11_Witness ==
    /\ InsertedRow
    /\ req.entry.CounterData = Ptr(5) /\ RowAfter.counterData = Ptr(5)
    /\ req.entry.MeterConfig = Nil /\ RowAfter.meterConfig = Nil
    /\ req.entry.MeterCounterData = Ptr(9) /\ RowAfter.meterData = Ptr(9)

(***************************************************************************)
(* Row identity and the priority (under Spec).                             *)
(***************************************************************************)
\* the keys of the stored rows whose entry has the request's matches, in
\* canonical order, and another priority
SameMatchesOtherPriority ==
    {k \in DOMAIN Before.rows :
        /\ Before.rows[k].entry.Match = Canonical(req.entry).Match
        /\ Before.rows[k].entry.Priority # req.entry.Priority}

\* the request's entry with another priority
OtherPriority == [Canonical(req.entry) EXCEPT !.Priority = @ + 1]

ExceedsSchema ==
    /\ KnownTable /\ ~req.entry.IsDefaultAction
    /\ Len(req.entry.Match) > Len(Before.info.MatchFields)

\* every stored row's entry has at most as many matches as the schema has fields
RowsWithinSchema ==
    \A id \in DOMAIN tables : \A k \in DOMAIN tables[id].rows :
        Len(tables[id].rows[k].entry.Match) <= Len(tables[id].info.MatchFields)

(***************************************************************************)
(* C13: an insert, modify, remove, direct-counter or direct-meter modify   *)
(* of a non-default entry with more matches than the table's schema has    *)
(* match fields fails Invalid and changes nothing; in every reachable      *)
(* state each stored row's entry has at most as many matches as the        *)
(* schema has match fields.                                                *)
(***************************************************************************)
C13_SchemaBound ==
    /\ (pc = "returned" /\ req.op \in MutatingOps /\ ExceedsSchema) =>
           (res.err = Invalid /\ tables = pre)
    /\ RowsWithinSchema

\* an insert of two matches into table 2, whose schema has one match field
C13_Witness ==
    /\ Returned("ModifyTableEntry") /\ req.insert /\ ExceedsSchema
    /\ req.entry.TableId = 2 /\ Len(req.entry.Match) = 2
    /\ res.err = Invalid
    /\ \E k \in DOMAIN tables[2].rows : Len(tables[2].rows[k].entry.Match) = 1

(***************************************************************************)
(* Sender failures (under SpecRead).                                       *)
(***************************************************************************)
\* the invocations of the sender of this call that failed
FailedInvocations == {i \in 1..Len(sent) : ~sent[i].ok}

\* the entities of the rows the aborted read has not reached
NotReached ==
    {getEntry(req.readType, tables[rd.cur].rows[rd.rows[i]]) : i \in 1..Len(rd.rows)}
        \cup (IF rd.dflt THEN {getEntry(req.readType, tables[rd.cur].defaultRow[1])} ELSE {})

(***************************************************************************)
(* C14: as soon as one invocation of the sender (a flush of a full buffer  *)
(* or the final flush) fails, the read of the table returns the sender's   *)
(* error and the sender is not invoked again in that read: in every state  *)
(* a failed invocation is the last one and the call has returned with the  *)
(* sender's error; the rows the read had not reached are in no batch.      *)
(***************************************************************************)
C14_SenderFailureAborts ==
    FailedInvocations # {} =>
        /\ FailedInvocations = {Len(sent)}
        /\ pc = "returned" /\ res.err = SenderError
        /\ rd.buf = <<>>
        /\ rd.cur # 0 =>
            /\ \A i \in 1..Len(sent) : \A j \in 1..Len(sent[i].batch) :
                   sent[i].batch[j] \notin NotReached
            /\ Len(Concat(sent)) + Cardinality(NotReached) = Size(tables[rd.cur])

\* the first flush of a full buffer failed with rows left to read
C14_Witness ==
    /\ pc = "returned" /\ res.err = SenderError
    /\ Len(sent) = 1 /\ ~sent[1].ok /\ Len(sent[1].batch) = BufferCap
    /\ Len(rd.rows) > BufferCap

(***************************************************************************)
(* Reads and the table state (under SpecFan).                              *)
(***************************************************************************)
\* a read is under way: from the call to its return
Reading == req.op = "ReadTableEntries" /\ pc \in {"called", "reading"}

(***************************************************************************)
(* C15: no step of a read, of one table or of all tables, of any read      *)
(* type, ending with success or with a sender failure, changes the rows,   *)
(* a row's entry or overlays, or the default row of any table.             *)
(***************************************************************************)
C15_ReadsArePure == [][Reading => tables' = tables]_vars

\* a read of all tables, aborted by a sender failure, over a table that
\* holds a row and a default row
C15_Witness ==
    /\ Returned("ReadTableEntries") /\ req.entry.TableId = 0
    /\ res.err = SenderError /\ Len(sent) >= 2
    /\ \E id \in DOMAIN tables :
          /\ tables[id].rows # <<>> /\ tables[id].defaultRow # Nil
          /\ \E i \in 1..Len(sent) : sent[i].table = id /\ Len(sent[i].batch) = 2

(***************************************************************************)
(* The default row (under SpecOverlay).                                    *)
(***************************************************************************)
\* the request is a modify that sets the default row
SetsDefaultRow ==
    /\ req.op = "ModifyTableEntry" /\ req.entry.IsDefaultAction
    /\ ~req.insert /\ req.entry.Match = <<>>

\* the default row of a table, if present, holds a default-action entry without
\* matches and is no row of the mapping, whose rows hold no default-action entry
DefaultRowApart(t) ==
    /\ t.defaultRow # Nil =>
          /\ t.defaultRow[1].entry.IsDefaultAction
          /\ t.defaultRow[1].entry.Match = <<>>
          /\ \A k \in DOMAIN t.rows : t.rows[k] # t.defaultRow[1]
    /\ \A k \in DOMAIN t.rows : ~t.rows[k].entry.IsDefaultAction

(***************************************************************************)
(* C16: in every state the default row, if present, holds a default-action *)
(* entry with no matches and is no row of the mapping, and no row of the   *)
(* mapping holds a default-action entry; a default row once set stays:     *)
(* a remove of a default-action entry fails Invalid, and no remove,        *)
(* insert, non-default modify or direct-counter or direct-meter modify     *)
(* (one with a default-action entry included) changes the default row or   *)
(* its overlays.                                                           *)
(***************************************************************************)
C16_DefaultRowLifecycle ==
    /\ \A id \in DOMAIN tables : DefaultRowApart(tables[id])
    /\ (pc = "returned" /\ req.op \in MutatingOps) =>
          /\ \A id \in DOMAIN pre :
                 pre[id].defaultRow # Nil => tables[id].defaultRow # Nil
          /\ (req.op = "RemoveTableEntry" /\ req.entry.IsDefaultAction /\ KnownTable) =>
                 (res.err = Invalid /\ tables = pre)
          /\ (~SetsDefaultRow \/ res.err # OK) =>
                 \A id \in DOMAIN pre : tables[id].defaultRow = pre[id].defaultRow

\* a direct-counter modify with a default-action entry has changed the row
\* stored without matches and left the default row and its overlays
C16_Witness ==
    /\ Returned("ModifyDirectCounterEntry") /\ req.entry.IsDefaultAction /\ res.err = OK
    /\ Before.defaultRow # Nil /\ After.defaultRow = Before.defaultRow
    /\ Before.defaultRow[1].counterData = Ptr(5)
    /\ After.rows # Before.rows

(***************************************************************************)
(* Row identity across match lists: inserts and modifies on table 1 of     *)
(* entries whose match lists differ in the number of matches, in a field   *)
(* ID, in a match type or in a payload.                                    *)
(***************************************************************************)
CollideMatchLists ==
    {<<>>}
        \cup {<<a>> : a \in
                {Exact(1, <<1>>), Exact(1, <<10>>), Exact(1, <<11>>), Exact(2, <<10>>),
                 Range(1, <<10>>, <<>>), Range(1, <<>>, <<10>>),
                 Range(1, <<10>>, <<10>>), Range(1, <<10>>, <<11>>),
                 Ternary(1, <<10>>, <<11>>), Ternary(1, <<11>>, <<10>>),
                 Lpm(1, <<10>>, 8), Lpm(1, <<10>>, 9), Lpm(1, <<10>>, 16777224),
                 Optional(1, <<10>>), Optional(1, <<11>>), Untyped(1)}}
        \cup {<<a, b>> : a \in {Exact(1, <<10>>), Exact(1, <<>>), Untyped(1)},
                         b \in {Exact(2, <<11>>), Exact(2, <<>>), Optional(2, <<10>>)}}

CollideEntries == {TableEntry(1, ml, "A", 0, FALSE, Nil, Nil, Nil) : ml \in CollideMatchLists}

CollideRequests == ModifyReqs(CollideEntries)

CallCollide == Call(CollideRequests, MaxCollideOps)

NextCollide == CallCollide \/ ModifyTableEntry \/ Return

SpecCollide == Init /\ [][NextCollide]_vars

\* an insert of a non-default entry that the schema accepts
InsertRequest == Returned("ModifyTableEntry") /\ req.insert /\ KeyedRequest

\* two match lists of the same shape: as many matches and, match by match, the
\* same type, one of the five, and payloads of the same lengths
SameShape(a, b) ==
    /\ Len(a) = Len(b)
    /\ \A i \in 1..Len(a) :
          /\ a[i].Type = b[i].Type /\ a[i].Type # "none"
          /\ Len(a[i].Value) = Len(b[i].Value) /\ Len(a[i].Mask) = Len(b[i].Mask)
          /\ Len(a[i].Low) = Len(b[i].Low) /\ Len(a[i].High) = Len(b[i].High)

\* the lists differ in a payload that is hashed: a value, mask, low or high
\* byte, or the low 24 bits of a prefix length
PayloadDiffers(a, b) ==
    \E i \in 1..Len(a) :
        \/ a[i].Value # b[i].Value \/ a[i].Mask # b[i].Mask
        \/ a[i].Low # b[i].Low \/ a[i].High # b[i].High
        \/ a[i].PrefixLen % (2 ^ 24) # b[i].PrefixLen % (2 ^ 24)

Distinguished(a, b) == SameShape(a, b) /\ PayloadDiffers(a, b)

(***************************************************************************)
(* C17 as claimed: two non-default entries whose canonically ordered match *)
(* lists differ in any way (number of matches, a field ID, a match type, a *)
(* payload) have different keys, so an insert of an entry whose canonical  *)
(* match list differs from that of every stored row succeeds and adds one  *)
(* row.                                                                    *)
(***************************************************************************)
C17_Claimed ==
    InsertRequest =>
        /\ \A k \in DOMAIN Before.rows :
               Before.rows[k].entry.Match # Canonical(req.entry).Match => k # ReqKey.key
        /\ (\A k \in DOMAIN Before.rows : Before.rows[k].entry.Match # Canonical(req.entry).Match)
               => (res.err = OK /\ Size(After) = Size(Before) + 1)

(***************************************************************************)
(* C17 as amended: two non-default entries whose canonically ordered match *)
(* lists have the same shape (as many matches and, match by match, the     *)
(* same type and payloads of the same lengths) and differ in a hashed      *)
(* payload (a value, mask, low or high byte, the low 24 bits of a prefix   *)
(* length) have different keys, so an insert of an entry so distinguished  *)
(* from every stored row succeeds and adds one row.                        *)
(***************************************************************************)
C17_SameShapeIdentity ==
    InsertRequest =>
        /\ \A k \in DOMAIN Before.rows :
               Distinguished(Before.rows[k].entry.Match, Canonical(req.entry).Match)
                   => k # ReqKey.key
        /\ (\A k \in DOMAIN Before.rows :
                Distinguished(Before.rows[k].entry.Match, Canonical(req.entry).Match))
               => /\ res.err = OK
                  /\ Size(After) = Size(Before) + 1
                  /\ DOMAIN After.rows = DOMAIN Before.rows \cup {ReqKey.key}

\* an insert of a range match next to the stored range match with the same lower bound
C17_Witness ==
    /\ InsertRequest /\ res.err = OK
    /\ Canonical(req.entry).Match = <<Range(1, <<10>>, <<11>>)>>
    /\ \E k \in DOMAIN Before.rows : Before.rows[k].entry.Match = <<Range(1, <<10>>, <<10>>)>>
    /\ Size(After) = Size(Before) + 1

(***************************************************************************)
(* Size accounting: every operation and reads on table 1, on two keys and  *)
(* the default row.                                                        *)
(***************************************************************************)
SizeEntries ==
    {TableEntry(1, ml, "A", 0, d, Nil, Nil, Nil) : ml \in {<<>>, <<m1>>}, d \in BOOLEAN}

SizeRequests ==
    ModifyReqs(SizeEntries) \cup RemoveReqs(SizeEntries)
        \cup DirectCounterReqs(SizeEntries, {Ptr(6)})
        \cup DirectMeterReqs(SizeEntries, {Ptr(8)})
        \cup ReadReqs({0, 1}, {ReadTableEntry})

CallSize == Call(SizeRequests, MaxSizeOps)

NextSize ==
    CallSize \/ ModifyTableEntry \/ RemoveTableEntry \/ ModifyDirectCounterEntry
        \/ ModifyDirectMeterEntry \/ ReadBegin \/ TableBegin \/ SendEntity \/ FinalFlush \/ Return

SpecSize == Init /\ [][NextSize]_vars

\* Table.Entries: the entries of the rows, in one of the orders a range over
\* the rows may take, then the entry of the default row
EntriesList(t) ==
    LET keys == SortedKeys(DOMAIN t.rows)
    IN  [i \in 1..Len(keys) |-> t.rows[keys[i]].entry]
            \o (IF t.defaultRow # Nil THEN <<t.defaultRow[1].entry>> ELSE <<>>)

\* a mutating request is about to be handled for table id
Handling(id) == pc = "called" /\ req.op \in MutatingOps /\ req.entry.TableId = id

\* the step is a successful insert into table id, or the first successful
\* default-action modify of table id
Grows(id) ==
    /\ Handling(id) /\ req.op = "ModifyTableEntry" /\ res'.err = OK
    /\ req.insert \/ (req.entry.IsDefaultAction /\ tables[id].defaultRow = Nil)

\* the step is a remove of a key that is present in table id
Shrinks(id) ==
    /\ Handling(id) /\ req.op = "RemoveTableEntry" /\ res'.err = OK
    /\ Has(tables[id].rows, entryKey(tables[id], Canonical(req.entry)).key)

SizeMatchesContent ==
    \A id \in DOMAIN tables :
        /\ Size(tables[id]) = Cardinality(DOMAIN tables[id].rows)
                                + (IF tables[id].defaultRow # Nil THEN 1 ELSE 0)
        /\ Size(tables[id]) = Len(EntriesList(tables[id]))
        /\ {EntriesList(tables[id])[i] : i \in 1..Len(EntriesList(tables[id]))} = Entries(tables[id])

SizeStep ==
    \A id \in DOMAIN tables :
        /\ (Size(tables'[id]) = Size(tables[id]) + 1) <=> Grows(id)
        /\ (Size(tables'[id]) = Size(tables[id]) - 1) <=> Shrinks(id)
        /\ (~Grows(id) /\ ~Shrinks(id)) => Size(tables'[id]) = Size(tables[id])

(***************************************************************************)
(* C18: in every state the size of a table is the number of its rows plus  *)
(* one if it has a default row, and the length of its Entries snapshot;    *)
(* a step adds one to the size exactly when it is a successful insert or   *)
(* the first successful default-action modify, takes one off exactly when  *)
(* it is a remove of a present key, and leaves the size otherwise (modify  *)
(* of a stored row, repeated default modify, direct-resource modify, read, *)
(* failed operation).                                                      *)
(***************************************************************************)
C18_SizeAccounting == [](SizeMatchesContent) /\ [][SizeStep]_vars

\* the first default-action modify of a table that holds one row
C18_Witness ==
    /\ Returned("ModifyTableEntry") /\ req.entry.IsDefaultAction /\ res.err = OK
    /\ Before.defaultRow = Nil /\ After.defaultRow # Nil
    /\ Size(Before) = 1 /\ Size(After) = 2
    /\ Len(EntriesList(After)) = 2

(***************************************************************************)
(* The registry (under Spec).                                              *)
(***************************************************************************)
\* the table IDs of the schemas the registry was made from
SchemaIds == {Schemas[i].Id : i \in DOMAIN Schemas}

(***************************************************************************)
(* C19: in every state the table IDs of the registry are the table IDs of  *)
(* the schemas given at construction, and each table keeps its schema; a   *)
(* modify, remove, direct-counter or direct-meter modify changes the rows  *)
(* and the default row of no table but the one its entry addresses.        *)
(***************************************************************************)
C19_RegistryStability ==
    /\ DOMAIN tables = SchemaIds
    /\ \A id \in DOMAIN tables : tables[id].info = NewTables(Schemas)[id].info
    /\ (pc = "returned" /\ req.op \in MutatingOps) =>
          /\ DOMAIN pre = SchemaIds
          /\ \A id \in SchemaIds : id # req.entry.TableId => tables[id] = pre[id]

\* an insert into table 2 next to table 1, which holds a row and a default row;
\* and a request for a table that is not in the registry is among the requests
C19_Witness ==
    /\ Returned("ModifyTableEntry") /\ req.insert /\ res.err = OK
    /\ req.entry.TableId = 2 /\ tables[2] # pre[2]
    /\ tables[1].rows # <<>> /\ tables[1].defaultRow # Nil /\ tables[1] = pre[1]
    /\ 9 \notin DOMAIN tables

(***************************************************************************)
(* The prefix length of an LPM match in the key (under SpecKey).           *)
(***************************************************************************)
\* the big-endian encoding of a non-negative int32
BigEndian32(n) ==
    <<(n \div (2 ^ 24)) % 256, (n \div (2 ^ 16)) % 256, (n \div (2 ^ 8)) % 256, n % 256>>

\* the prefix lengths of the LPM matches that keys are derived for
LpmPrefixLens == {m.PrefixLen : m \in {x \in KeyMatches : x.Type = "lpm"}}

\* the key derived for a list of one LPM match
LpmKeyDerived ==
    /\ Returned("entryKey") /\ res.err = OK
    /\ Len(req.entry.Match) = 1 /\ req.entry.Match[1].Type = "lpm"

(***************************************************************************)
(* C20: the four bytes hashed for the prefix length n of an LPM match are  *)
(* the big-endian int32 encoding of n, so two LPM matches with the same    *)
(* value bytes and different prefix lengths are hashed as different byte   *)
(* strings.                                                                *)
(***************************************************************************)
C20_Claimed ==
    LpmKeyDerived =>
        LET m == req.entry.Match[1]
        IN  /\ writeHash(m.PrefixLen) = BigEndian32(m.PrefixLen)
            /\ res.key = <<2>> \o BigEndian32(m.PrefixLen) \o m.Value
            /\ \A n \in LpmPrefixLens \ {m.PrefixLen} :
                   entryKey(tables[1], [req.entry EXCEPT !.Match = <<Lpm(m.FieldId, m.Value, n)>>]).key
                       # res.key

====
